---- MODULE Spec2Model ----
(***************************************************************************)
(* Model of the multi-source retrieval and answer-integration pipeline of  *)
(* the medical chatbot: RAGSystem's workflow graph (rag_system.py), the    *)
(* ParallelSearcher (components/parallel_searcher.py), the Integrator      *)
(* (components/integrator.py) and the Evaluator (components/evaluator.py). *)
(*                                                                         *)
(* One turn is one RAGSystem.run_graph call.  pc is the graph node about   *)
(* to run; the worker pool of _execute_parallel_search is modelled by one  *)
(* future per submitted task, completed by the adapter's thread and        *)
(* collected by the as_completed loop of the calling thread.  Wall-clock   *)
(* time is abstracted: the as_completed deadline may expire whenever a     *)
(* submitted task is still running.                                        *)
(*                                                                         *)
(* Four specifications share the variables:                                *)
(*   Spec            the turns of one thread, one after the other, with    *)
(*                   the dispatch, the Integrator and the Evaluator; the   *)
(*                   conversation history is not followed there;           *)
(*   IntegratorSpec  Integrator.integrate_answers on source maps and       *)
(*                   weight tables drawn from bounded sets;                *)
(*   ConcurrentSpec  two run_graph calls in flight, the per-call state     *)
(*                   indexed by the turn;                                  *)
(*   HistorySpec     the conversation history of the threads of several    *)
(*                   users, the append_messages reducer and the            *)
(*                   MemoryManager; the retrieval is not followed there.   *)
(***************************************************************************)
EXTENDS Integers, Sequences, FiniteSets, TLC

(***************************************************************************)
(* Bounds of the model                                                     *)
(***************************************************************************)
MaxTurns == 2
MaxDocs == 1
MaxCalls == 4

(***************************************************************************)
(* Program constants                                                       *)
(***************************************************************************)
MAX_RETRIES == 2

\* Config.RECURSION_LIMIT, passed to app.invoke as recursion_limit
RECURSION_LIMIT == 50

Sources == {"local", "s3", "medgemma", "pubmed", "tavily", "bedrock_kb"}

\* insertion order of the retrievers / sources_enabled dictionaries
SourceOrder == <<"local", "s3", "medgemma", "pubmed", "tavily", "bedrock_kb">>


\* the search / configuration methods each adapter class defines
Methods(kind) ==
    CASE kind = "Retriever"        -> {"retrieve_documents"}
      [] kind = "TavilySearcher"   -> {"search_web"}
      [] kind = "BedrockRetriever" -> {"retrieve_documents"}
      [] OTHER                     -> {}

\* ParallelSearcher.__init__ builds self.retrievers from its positional
\* parameters (local, medgemma, pubmed, tavily, s3, bedrock)
retrievers_of(local, medgemma, pubmed, tavily, s3, bedrock) ==
    [s \in Sources |->
        CASE s = "local"      -> local
          [] s = "s3"         -> s3
          [] s = "medgemma"   -> medgemma
          [] s = "pubmed"     -> pubmed
          [] s = "tavily"     -> tavily
          [] s = "bedrock_kb" -> bedrock]

\* RAGSystem.__init__: ParallelSearcher(self.retriever, self.medgemma_searcher,
\* self.tavily_searcher, self.s3_retriever, self.bedrock_retriever) where
\* medgemma_searcher and s3_retriever are None, the Tavily searcher is None
\* when its construction failed and the Bedrock retriever is None when no
\* knowledge base is configured or its construction failed.
Wirings ==
    { retrievers_of("Retriever", "None", tavily, "None", bedrock, "None") :
        tavily \in {"None", "TavilySearcher"},
        bedrock \in {"None", "BedrockRetriever"} }

\* keys a source-weight table may carry (Integrator.source_weights)
WeightKeys == Sources \cup {"rag", "web"}

\* the weight tables considered: Config.SOURCE_WEIGHTS is configuration
WeightTables == { WeightKeys, WeightKeys \ {"rag"}, Sources }

\* documents an adapter of the given class can return, best-ranked first
Doc(kind, rank) == [by |-> kind, rank |-> rank]
AdapterResults(kind) ==
    { [i \in 1..n |-> Doc(kind, i)] : n \in 0..MaxDocs }

\* binary_score strings the classification model may answer
Scores == {"yes", "YES", "no", "maybe"}

\* str.lower() on the score strings
lower(s) == IF s = "YES" THEN "yes" ELSE s

(***************************************************************************)
(* Insertion-ordered dictionaries (Python dict): sequences of entries      *)
(***************************************************************************)
Keys(d) == { d[i].key : i \in 1..Len(d) }

Get(d, k) == (CHOOSE i \in 1..Len(d) : d[i].key = k)

Put(d, k, v) ==
    IF k \in Keys(d)
    THEN [i \in 1..Len(d) |-> IF d[i].key = k THEN [key |-> k, val |-> v] ELSE d[i]]
    ELSE Append(d, [key |-> k, val |-> v])

Val(d, k) == d[Get(d, k)].val

RECURSIVE Flatten(_)
\* all_docs: for docs in source_categorized_docs.values(): all_docs.extend(docs)
Flatten(d) == IF d = <<>> THEN <<>> ELSE Head(d).val \o Flatten(Tail(d))

(***************************************************************************)
(* Answers: the text is abstracted to its provenance                       *)
(***************************************************************************)
NoAnswer == [kind |-> "none", attempt |-> 0, source |-> "none"]
NoInfoAnswer(n) == [kind |-> "no_info", attempt |-> n, source |-> "none"]
GeneratedAnswer(n) == [kind |-> "generated", attempt |-> n, source |-> "none"]
FallbackAnswer(n, s) == [kind |-> "fallback", attempt |-> n, source |-> s]
SorryAnswer(n) == [kind |-> "sorry", attempt |-> n, source |-> "none"]

VARIABLES
    retrievers,              \* ParallelSearcher.retrievers: source -> adapter class
    sources_enabled,         \* ParallelSearcher.sources_enabled: source -> bool
    source_weights,          \* key set of Integrator.source_weights
    pc,                      \* node of the turn about to run
    turn,                    \* number of run_graph calls started
    rewrite_count,           \* GraphState.rewrite_count
    hallucination_decision,  \* GraphState.hallucination_decision
    source_categorized_docs, \* GraphState.source_categorized_docs (ordered dict)
    integrated_answer,       \* GraphState.integrated_answer / generation
    hallucination_attempts,  \* count handed to the output formatter
    formatted_answer,        \* answer handed to the output formatter
    search_tasks,            \* tasks of the running dispatch
    futures,                 \* submitted task -> state of its future
    results,                 \* results dict of _execute_parallel_search
    timed_out,               \* tasks still running when as_completed timed out
    dispatch_calls,          \* search_all_parallel calls in this turn
    integrate_calls,         \* Integrator.integrate_answers calls in this turn
    gen_calls,               \* generation-model invocations in this turn
    last_integrate,          \* what the last integrate_answers call did
    check_calls,             \* Evaluator.check_hallucination calls in this turn
    cls_calls,               \* classification-model invocations in this turn
    ng_verdicts,             \* 'hallucination' verdicts returned in this turn
    last_check,              \* what the last check_hallucination call did
    failures,                \* components that failed in this turn
    error,                   \* exception that reached run_graph's caller
    config_error,            \* exception raised by the last set_source_enabled
    node_executions,         \* graph nodes executed in this turn
    user_id,                 \* thread_id of the running run_graph call
    conversation_history,    \* checkpointed conversation_history of each thread
    summary_cache,           \* MemoryManager.summary_cache
    last_manage              \* what the last manage_conversation_memory call did

vars == << retrievers, sources_enabled, source_weights, pc, turn, rewrite_count,
           hallucination_decision, source_categorized_docs, integrated_answer,
           hallucination_attempts, formatted_answer, search_tasks, futures,
           results, timed_out, dispatch_calls, integrate_calls, gen_calls, last_integrate,
           check_calls, cls_calls, ng_verdicts, last_check, failures, error,
           config_error, node_executions, user_id, conversation_history,
           summary_cache, last_manage >>

memory_vars == << user_id, conversation_history, summary_cache, last_manage >>

config_vars == << retrievers, sources_enabled, source_weights >>
pool_vars == << search_tasks, futures, results, timed_out >>
integ_vars == << integrate_calls, gen_calls, last_integrate >>
check_vars == << check_calls, cls_calls, ng_verdicts, last_check >>
state_vars == << rewrite_count, hallucination_decision, source_categorized_docs,
                 integrated_answer, hallucination_attempts, formatted_answer >>

\* thread ids (user_id) run_graph is called with
Users == {"u1", "u2"}

\* MemoryManager.summary_cache = None
NoSummary == [set |-> FALSE, summary |-> <<>>]

\* no manage_conversation_memory call was made yet
NoManage == [history |-> <<>>, ret |-> <<>>]

NoIntegrate == [docs |-> <<>>, invoked |-> FALSE, weighted_content |-> <<>>,
                gen |-> "none", ret |-> NoAnswer]
NoCheck == [documents |-> <<>>, answer |-> NoAnswer, invoked |-> FALSE,
            score |-> "none", ret |-> "none"]

(***************************************************************************)
(* Construction: RAGSystem.__init__                                        *)
(***************************************************************************)
\* ParallelSearcher.__init__: a source is enabled when its adapter is not None
\* and the configuration enables it
initial_sources_enabled(rs, search_sources_config) ==
    [s \in Sources |-> rs[s] # "None" /\ search_sources_config[s]]

Init ==
    /\ retrievers \in Wirings
    /\ \E cfg \in [Sources -> BOOLEAN] :
          sources_enabled = initial_sources_enabled(retrievers, cfg)
    /\ source_weights \in WeightTables
    /\ pc = "idle"
    /\ turn = 0
    /\ rewrite_count = 0
    /\ hallucination_decision = "none"
    /\ source_categorized_docs = <<>>
    /\ integrated_answer = NoAnswer
    /\ hallucination_attempts = 0
    /\ formatted_answer = NoAnswer
    /\ search_tasks = {}
    /\ futures = << >>
    /\ results = <<>>
    /\ timed_out = {}
    /\ dispatch_calls = 0
    /\ integrate_calls = 0
    /\ gen_calls = 0
    /\ last_integrate = NoIntegrate
    /\ check_calls = 0
    /\ cls_calls = 0
    /\ ng_verdicts = 0
    /\ last_check = NoCheck
    /\ failures = {}
    /\ error = "none"
    /\ config_error = "none"
    /\ node_executions = 0
    /\ user_id = "none"
    /\ conversation_history = [u \in Users |-> <<>>]
    /\ summary_cache = NoSummary
    /\ last_manage = NoManage

(***************************************************************************)
(* RAGSystem.run_graph and the nodes before the dispatch                   *)
(***************************************************************************)
BetweenTurns == pc \in {"idle", "END", "raised"}

\* a turn that starts from the rewrite_count of the thread's last checkpoint
initial_rewrite_count_checkpointed(checkpointed) == checkpointed

\* GraphState.rewrite_count of a new turn: run_graph passes no value, so the
\* field default 0 is written over what the thread's checkpoint holds
initial_rewrite_count(checkpointed) == 0

\* run_graph: initial_state = GraphState(question, user_id, conversation_history),
\* every other field at its default, then app.invoke enters process_question
run_graph ==
    /\ BetweenTurns
    /\ turn < MaxTurns
    /\ turn' = turn + 1
    /\ pc' = "process_question"
    /\ rewrite_count' = initial_rewrite_count(rewrite_count)
    /\ hallucination_decision' = "none"
    /\ source_categorized_docs' = <<>>
    /\ integrated_answer' = NoAnswer
    /\ hallucination_attempts' = 0
    /\ formatted_answer' = NoAnswer
    /\ search_tasks' = {}
    /\ futures' = << >>
    /\ results' = <<>>
    /\ timed_out' = {}
    /\ dispatch_calls' = 0
    /\ integrate_calls' = 0
    /\ gen_calls' = 0
    /\ last_integrate' = NoIntegrate
    /\ check_calls' = 0
    /\ cls_calls' = 0
    /\ ng_verdicts' = 0
    /\ last_check' = NoCheck
    /\ failures' = {}
    /\ error' = "none"
    /\ config_error' = "none"
    /\ node_executions' = 0
    /\ UNCHANGED << config_vars, memory_vars >>

\* Router.route_question returns the constant "vectorstore"
route_question == "vectorstore"

process_question ==
    /\ pc = "process_question"
    /\ node_executions' = node_executions + 1
    /\ pc' = "route_question"
    /\ UNCHANGED << config_vars, memory_vars, turn, state_vars, pool_vars, dispatch_calls,
                    integ_vars, check_vars, failures, error, config_error >>

\* node route_question and the conditional edge _get_route
route_question_node ==
    /\ pc = "route_question"
    /\ node_executions' = node_executions + 1
    /\ pc' = IF route_question = "web_search" THEN "parallel_search" ELSE "retrieve"
    /\ UNCHANGED << config_vars, memory_vars, turn, state_vars, pool_vars, dispatch_calls,
                    integ_vars, check_vars, failures, error, config_error >>

\* node retrieve: its documents are not read again while a parallel searcher exists
retrieve ==
    /\ pc = "retrieve"
    /\ node_executions' = node_executions + 1
    /\ pc' = "parallel_search"
    /\ UNCHANGED << config_vars, memory_vars, turn, state_vars, pool_vars, dispatch_calls,
                    integ_vars, check_vars, failures, error, config_error >>

(***************************************************************************)
(* ParallelSearcher                                                        *)
(***************************************************************************)
\* the bound method _prepare_search_tasks looks up on the adapter of a source
search_method(s, kind) ==
    CASE s = "local"      -> IF "_retrieve_local_documents" \in Methods(kind)
                             THEN "_retrieve_local_documents"
                             ELSE "retrieve_documents"
      [] s = "s3"         -> "retrieve_documents"
      [] s = "medgemma"   -> "search_medgemma"
      [] s = "pubmed"     -> "search_pubmed"
      [] s = "tavily"     -> "search_web"
      [] s = "bedrock_kb" -> "retrieve_documents"

\* source_functions: sources whose adapter is not None and has the method
\* (an AttributeError of the lookup is caught and the source left out)
source_functions(rs) ==
    { s \in Sources : rs[s] # "None" /\ search_method(s, rs[s]) \in Methods(rs[s]) }

\* a task list that ignores sources_enabled
prepare_search_tasks_flags_ignored(rs, enabled) == source_functions(rs)

\* _prepare_search_tasks: the enabled sources that have a source function
prepare_search_tasks(rs, enabled) ==
    { s \in Sources : enabled[s] /\ s \in source_functions(rs) }

\* a dispatcher that stores [] for every finished future
collected_value_dropped(fut) == <<>>

\* results[source] = result if result else []; [] when future.result raises
collected_value(fut) ==
    IF fut.status = "returned"
    THEN (IF fut.result # <<>> THEN fut.result ELSE <<>>)
    ELSE <<>>

Running == { s \in search_tasks : futures[s].status = "running" }

\* node parallel_search up to the submission of the tasks; with no task
\* search_all_parallel returns {} at once
search_all_parallel ==
    /\ pc = "parallel_search"
    /\ node_executions' = node_executions + 1
    /\ dispatch_calls' = dispatch_calls + 1
    /\ LET tasks == prepare_search_tasks(retrievers, sources_enabled) IN
         /\ search_tasks' = tasks
         /\ futures' = [s \in tasks |-> [status |-> "running", result |-> <<>>]]
         /\ results' = <<>>
         /\ IF tasks = {}
            THEN /\ source_categorized_docs' = <<>>
                 /\ pc' = "integrate_answers"
            ELSE /\ UNCHANGED source_categorized_docs
                 /\ pc' = "as_completed"
    /\ UNCHANGED << config_vars, memory_vars, turn, rewrite_count, hallucination_decision,
                    integrated_answer, hallucination_attempts,
                    formatted_answer, timed_out,
                    integ_vars, check_vars, failures, error, config_error >>

InPool == pc \in {"as_completed", "shutdown"}

\* a worker thread: the adapter's search call returns a list of documents
adapter_returns(s) ==
    /\ InPool
    /\ s \in Running
    /\ \E r \in AdapterResults(retrievers[s]) :
          futures' = [futures EXCEPT ![s] = [status |-> "returned", result |-> r]]
    /\ UNCHANGED << config_vars, memory_vars, node_executions, pc, turn, state_vars, search_tasks, results,
                    timed_out, dispatch_calls, integ_vars, check_vars, failures,
                    error, config_error >>

\* a worker thread: the adapter's search call raises
adapter_raises(s) ==
    /\ InPool
    /\ s \in Running
    /\ futures' = [futures EXCEPT ![s] = [status |-> "raised", result |-> <<>>]]
    /\ failures' = failures \cup {s}
    /\ UNCHANGED << config_vars, memory_vars, node_executions, pc, turn, state_vars, search_tasks, results,
                    timed_out, dispatch_calls, integ_vars, check_vars,
                    error, config_error >>

\* one iteration of the as_completed loop: a finished future is yielded and
\* its result (or [] when future.result raises) is stored under its source
as_completed_next(s) ==
    /\ pc = "as_completed"
    /\ s \in search_tasks \ Running
    /\ s \notin Keys(results)
    /\ results' = Put(results, s, collected_value(futures[s]))
    /\ UNCHANGED << config_vars, memory_vars, node_executions, pc, turn, state_vars, search_tasks, futures,
                    timed_out, dispatch_calls, integ_vars, check_vars, failures,
                    error, config_error >>

\* as_completed(timeout = self.timeout + 5) raises TimeoutError while futures
\* are unfinished; the error leaves the for loop and enters the exit of the
\* with block, ThreadPoolExecutor.shutdown(wait=True)
as_completed_timeout ==
    /\ pc = "as_completed"
    /\ Running # {}
    /\ timed_out' = Running
    /\ failures' = failures \cup Running
    /\ pc' = "shutdown"
    /\ UNCHANGED << config_vars, memory_vars, node_executions, turn, state_vars, search_tasks, futures, results,
                    dispatch_calls, integ_vars, check_vars, error, config_error >>

\* shutdown(wait=True) has joined every worker: the TimeoutError propagates out
\* of search_all_parallel, the node, app.invoke and run_graph
shutdown_raises ==
    /\ pc = "shutdown"
    /\ Running = {}
    /\ pc' = "raised"
    /\ error' = "TimeoutError"
    /\ UNCHANGED << config_vars, memory_vars, node_executions, turn, state_vars, pool_vars, dispatch_calls,
                    integ_vars, check_vars, failures, config_error >>

RECURSIVE fill_defaults(_, _, _)
\* for source in search_tasks.keys(): if source not in results: results[source] = []
fill_defaults(res, tasks, i) ==
    IF i > Len(SourceOrder) THEN res
    ELSE IF SourceOrder[i] \in tasks /\ SourceOrder[i] \notin Keys(res)
         THEN fill_defaults(Put(res, SourceOrder[i], <<>>), tasks, i + 1)
         ELSE fill_defaults(res, tasks, i + 1)

\* as_completed is exhausted: the pool is left, the defaults are filled in and
\* the node stores the map in source_categorized_docs
parallel_search_returns ==
    /\ pc = "as_completed"
    /\ Running = {}
    /\ Keys(results) = search_tasks
    /\ results' = fill_defaults(results, search_tasks, 1)
    /\ source_categorized_docs' = results'
    /\ pc' = "integrate_answers"
    /\ UNCHANGED << config_vars, memory_vars, node_executions, turn, rewrite_count, hallucination_decision,
                    integrated_answer, hallucination_attempts,
                    formatted_answer, search_tasks,
                    futures, timed_out, dispatch_calls, integ_vars, check_vars,
                    failures, error, config_error >>

\* set_source_enabled: an unknown source changes nothing; for "local" and "s3"
\* with an adapter the adapter's own switch is called first, and a missing
\* method raises AttributeError before sources_enabled is updated
enable_method(s) == IF s = "local" THEN "set_local_search_enabled" ELSE "set_enabled"

set_source_enabled(source, enabled) ==
    /\ BetweenTurns
    /\ IF source \notin Sources
       THEN UNCHANGED << sources_enabled, config_error >>
       ELSE IF /\ source \in {"local", "s3"}
               /\ retrievers[source] # "None"
               /\ enable_method(source) \notin Methods(retrievers[source])
            THEN /\ config_error' = "AttributeError"
                 /\ UNCHANGED sources_enabled
            ELSE /\ sources_enabled' = [sources_enabled EXCEPT ![source] = enabled]
                 /\ config_error' = "none"
    /\ UNCHANGED << retrievers, source_weights, pc, turn, state_vars, pool_vars,
                    dispatch_calls, integ_vars, check_vars, failures, error,
                    memory_vars, node_executions >>

(***************************************************************************)
(* Integrator                                                              *)
(***************************************************************************)
\* characters of page_content of a document: the best-ranked one is longer
\* than the budget of a context item, the others are shorter
page_chars(doc) == IF doc.rank = 1 THEN 450 ELSE 120

\* content = doc.page_content[:300]
ContentBudget == 300

\* one numbered line of a section: the document with its content cut
section_item(doc) ==
    [by |-> doc.by, rank |-> doc.rank,
     chars |-> IF page_chars(doc) <= ContentBudget THEN page_chars(doc)
               ELSE ContentBudget]

\* a context that also opens a section for a source whose list is empty
build_weighted_content_with_empty(categorized_docs, weights) ==
    [i \in 1..Len(categorized_docs) |->
        [source |-> categorized_docs[i].key,
         weight |-> IF categorized_docs[i].key \in weights
                    THEN "configured" ELSE "default",
         items  |-> [j \in 1..Len(categorized_docs[i].val) |->
                        section_item(categorized_docs[i].val[j])]]]

\* _build_weighted_content: one section per source whose list is not empty, in
\* the insertion order of the map; the weight is source_weights.get(source, 0.5)
build_weighted_content(categorized_docs, weights) ==
    LET nonempty == SelectSeq(categorized_docs, LAMBDA e : e.val # <<>>) IN
    [i \in 1..Len(nonempty) |->
        [source |-> nonempty[i].key,
         weight |-> IF nonempty[i].key \in weights THEN "configured" ELSE "default",
         items  |-> [j \in 1..Len(nonempty[i].val) |-> section_item(nonempty[i].val[j])]]]

\* the sources _fallback_integration tries, in this order
FallbackOrder == <<"pubmed", "medgemma", "rag">>

\* _fallback_integration: the first source of FallbackOrder that is a key of the
\* map with a non-empty list; self.source_weights[source_type] raises KeyError
\* when the table has no entry for it
fallback_integration(categorized_docs, weights, n) ==
    LET usable == { i \in 1..Len(FallbackOrder) :
                      /\ FallbackOrder[i] \in Keys(categorized_docs)
                      /\ Val(categorized_docs, FallbackOrder[i]) # <<>> } IN
    IF usable = {}
    THEN [raised |-> "none", ret |-> SorryAnswer(n)]
    ELSE LET first == FallbackOrder[CHOOSE i \in usable : \A j \in usable : i <= j] IN
         IF first \in weights
         THEN [raised |-> "none", ret |-> FallbackAnswer(n, first)]
         ELSE [raised |-> "KeyError", ret |-> NoAnswer]

\* Integrator.integrate_answers, call number n of the turn; gen is what the
\* generation model does when it is invoked ("ok" or "raise")
integrate_answers(categorized_docs, weights, gen, n) ==
    IF categorized_docs = <<>>
    THEN [invoked |-> FALSE, raised |-> "none", ret |-> NoInfoAnswer(n)]
    ELSE IF gen = "ok"
         THEN [invoked |-> TRUE, raised |-> "none", ret |-> GeneratedAnswer(n)]
         ELSE LET fb == fallback_integration(categorized_docs, weights, n) IN
              [invoked |-> TRUE, raised |-> fb.raised, ret |-> fb.ret]

\* node integrate_answers
integrate_answers_node(gen) ==
    /\ pc = "integrate_answers"
    /\ node_executions' = node_executions + 1
    /\ LET n == integrate_calls + 1
           r == integrate_answers(source_categorized_docs, source_weights, gen, n) IN
         /\ (~r.invoked) => gen = "ok"
         /\ integrate_calls' = n
         /\ gen_calls' = IF r.invoked THEN gen_calls + 1 ELSE gen_calls
         /\ last_integrate' =
               [docs |-> source_categorized_docs,
                invoked |-> r.invoked,
                weighted_content |->
                    IF r.invoked
                    THEN build_weighted_content(source_categorized_docs, source_weights)
                    ELSE <<>>,
                gen |-> IF r.invoked THEN gen ELSE "none",
                ret |-> r.ret]
         /\ failures' = IF r.invoked /\ gen = "raise"
                        THEN failures \cup {"generation"} ELSE failures
         /\ IF r.raised = "none"
            THEN /\ integrated_answer' = r.ret
                 /\ pc' = "hallucination_check"
                 /\ UNCHANGED error
            ELSE /\ UNCHANGED integrated_answer
                 /\ pc' = "raised"
                 /\ error' = r.raised
    /\ UNCHANGED << config_vars, memory_vars, turn, rewrite_count, hallucination_decision,
                    source_categorized_docs, hallucination_attempts,
                    formatted_answer, pool_vars,
                    dispatch_calls, check_vars, config_error >>

(***************************************************************************)
(* Evaluator and the retry loop                                            *)
(***************************************************************************)
\* a verifier without the empty-evidence short-circuit
check_hallucination_no_shortcut(documents, cls) ==
    IF cls = "raise"
    THEN [invoked |-> TRUE, ret |-> "hallucination"]
    ELSE IF lower(cls) = "yes"
         THEN [invoked |-> TRUE, ret |-> "relevant"]
         ELSE [invoked |-> TRUE, ret |-> "hallucination"]

\* a verifier that passes the answer when the classification call raises
check_hallucination_fail_safe(documents, cls) ==
    IF documents = <<>>
    THEN [invoked |-> FALSE, ret |-> "relevant"]
    ELSE IF cls = "raise"
         THEN [invoked |-> TRUE, ret |-> "relevant"]
         ELSE IF lower(cls) = "yes"
              THEN [invoked |-> TRUE, ret |-> "relevant"]
              ELSE [invoked |-> TRUE, ret |-> "hallucination"]

\* a verifier that rejects an answer given without evidence
check_hallucination_empty_rejected(documents, cls) ==
    IF documents = <<>>
    THEN [invoked |-> FALSE, ret |-> "hallucination"]
    ELSE IF cls = "raise"
         THEN [invoked |-> TRUE, ret |-> "hallucination"]
         ELSE IF lower(cls) = "yes"
              THEN [invoked |-> TRUE, ret |-> "relevant"]
              ELSE [invoked |-> TRUE, ret |-> "hallucination"]

\* Evaluator.check_hallucination; cls is what the classification model does
\* when it is invoked: a binary_score of Scores, or "raise"
check_hallucination(documents, cls) ==
    IF documents = <<>>
    THEN [invoked |-> FALSE, ret |-> "relevant"]
    ELSE IF cls = "raise"
         THEN [invoked |-> TRUE, ret |-> "hallucination"]
         ELSE IF lower(cls) = "yes"
              THEN [invoked |-> TRUE, ret |-> "relevant"]
              ELSE [invoked |-> TRUE, ret |-> "hallucination"]

\* a retry guard that is off by one
retries_exhausted_off_by_one(count) == count > MAX_RETRIES

\* a retry guard that accepts after the first retry
retries_exhausted_early(count) == count >= 1

\* a retry guard that allows four retries
retries_exhausted_late(count) == count >= 4

\* if state.rewrite_count >= 2: the verifier is skipped and the answer accepted
retries_exhausted(count) == count >= MAX_RETRIES

\* a graph whose verdict edge never goes back to the Integrator
hallucination_edge_no_retry(decision) == "format_output"

\* a graph whose retry edge goes back to the dispatcher
hallucination_edge_redispatch(decision) ==
    IF decision = "hallucination" THEN "parallel_search" ELSE "format_output"

\* a graph whose retry edge goes back to the retrieve node
hallucination_edge_reretrieve(decision) ==
    IF decision = "hallucination" THEN "retrieve" ELSE "format_output"

\* conditional edges of hallucination_check:
\* {"hallucination": "integrate_answers", "relevant": "format_output"}
hallucination_edge(decision) ==
    IF decision = "hallucination" THEN "integrate_answers" ELSE "format_output"

\* a retry that counts twice
next_rewrite_count_twice(count) == count + 2

\* "rewrite_count": state.rewrite_count + 1, returned with a 'hallucination'
next_rewrite_count(count) == count + 1

\* node hallucination_check and the conditional edge _get_hallucination_decision
hallucination_check(cls) ==
    /\ pc = "hallucination_check"
    /\ node_executions' = node_executions + 1
    /\ IF retries_exhausted(rewrite_count)
       THEN /\ cls = "yes"
            /\ hallucination_decision' = "relevant"
            /\ pc' = hallucination_edge("relevant")
            /\ UNCHANGED << rewrite_count, check_vars, failures >>
       ELSE LET all_docs == Flatten(source_categorized_docs)
                r == check_hallucination(all_docs, cls) IN
            /\ (~r.invoked) => cls = "yes"
            /\ check_calls' = check_calls + 1
            /\ cls_calls' = IF r.invoked THEN cls_calls + 1 ELSE cls_calls
            /\ last_check' = [documents |-> all_docs, answer |-> integrated_answer,
                              invoked |-> r.invoked,
                              score |-> IF r.invoked THEN cls ELSE "none",
                              ret |-> r.ret]
            /\ failures' = IF r.invoked /\ cls = "raise"
                           THEN failures \cup {"classification"} ELSE failures
            /\ hallucination_decision' = r.ret
            /\ pc' = hallucination_edge(r.ret)
            /\ IF r.ret = "hallucination"
               THEN /\ rewrite_count' = next_rewrite_count(rewrite_count)
                    /\ ng_verdicts' = ng_verdicts + 1
               ELSE UNCHANGED << rewrite_count, ng_verdicts >>
    /\ UNCHANGED << config_vars, memory_vars, turn, source_categorized_docs, integrated_answer,
                    hallucination_attempts,
                    formatted_answer, pool_vars, dispatch_calls, integ_vars,
                    error, config_error >>

\* node format_output: hallucination_attempts = rewrite_count + 1; the graph
\* ends and run_graph returns the formatted answer
format_output ==
    /\ pc = "format_output"
    /\ node_executions' = node_executions + 1
    /\ hallucination_attempts' = rewrite_count + 1
    /\ formatted_answer' = integrated_answer
    /\ pc' = "END"
    /\ UNCHANGED << config_vars, memory_vars, turn, rewrite_count, hallucination_decision,
                    source_categorized_docs, integrated_answer, pool_vars,
                    dispatch_calls, integ_vars, check_vars, failures, error,
                    config_error >>

(***************************************************************************)
(* Specification                                                           *)
(***************************************************************************)
\* source names a caller passes to set_source_enabled ("rag" is not a source)
ConfigSources == Sources \cup {"rag"}

Next ==
    \/ run_graph
    \/ process_question
    \/ route_question_node
    \/ retrieve
    \/ search_all_parallel
    \/ \E s \in Sources : adapter_returns(s)
    \/ \E s \in Sources : adapter_raises(s)
    \/ \E s \in Sources : as_completed_next(s)
    \/ as_completed_timeout
    \/ shutdown_raises
    \/ parallel_search_returns
    \/ \E gen \in {"ok", "raise"} : integrate_answers_node(gen)
    \/ \E cls \in Scores \cup {"raise"} : hallucination_check(cls)
    \/ format_output
    \/ \E source \in ConfigSources, enabled \in BOOLEAN :
          set_source_enabled(source, enabled)

Spec == Init /\ [][Next]_vars

(***************************************************************************)
(* Integrator.integrate_answers applied to one source map drawn from a     *)
(* bounded set, under one weight table drawn from a bounded set            *)
(***************************************************************************)
\* keys of the source maps handed to the Integrator
IntegratorKeys == <<"local", "medgemma", "pubmed", "rag">>

RECURSIVE SourceMaps(_)
\* the maps over a sequence of keys: each key absent, or present with a list
SourceMaps(keys) ==
    IF keys = <<>>
    THEN { <<>> }
    ELSE LET rest == SourceMaps(Tail(keys)) IN
         rest \cup { <<[key |-> Head(keys), val |-> v]>> \o m :
                        m \in rest, v \in AdapterResults(Head(keys)) }

\* weight tables handed to the Integrator, some without the fallback's sources
IntegratorWeightTables == WeightTables \cup { {"local", "s3"}, {} }

IntegratorInit ==
    /\ retrievers = retrievers_of("Retriever", "None", "None", "None", "None", "None")
    /\ sources_enabled = [s \in Sources |-> FALSE]
    /\ source_weights \in IntegratorWeightTables
    /\ pc = "integrate_answers"
    /\ turn = 1
    /\ rewrite_count = 0
    /\ hallucination_decision = "none"
    /\ source_categorized_docs \in SourceMaps(IntegratorKeys)
    /\ integrated_answer = NoAnswer
    /\ hallucination_attempts = 0
    /\ formatted_answer = NoAnswer
    /\ search_tasks = {}
    /\ futures = << >>
    /\ results = <<>>
    /\ timed_out = {}
    /\ dispatch_calls = 1
    /\ integrate_calls = 0
    /\ gen_calls = 0
    /\ last_integrate = NoIntegrate
    /\ check_calls = 0
    /\ cls_calls = 0
    /\ ng_verdicts = 0
    /\ last_check = NoCheck
    /\ failures = {}
    /\ error = "none"
    /\ config_error = "none"
    /\ node_executions = 0
    /\ user_id = "none"
    /\ conversation_history = [u \in Users |-> <<>>]
    /\ summary_cache = NoSummary
    /\ last_manage = NoManage

IntegratorNext == \E gen \in {"ok", "raise"} : integrate_answers_node(gen)

IntegratorSpec == IntegratorInit /\ [][IntegratorNext]_vars

(***************************************************************************)
(* Two run_graph calls in flight on one RAGSystem, each in its own thread. *)
(* The GraphState of a call and the locals of its search_all_parallel call *)
(* (search_tasks, future_to_source, results) are indexed by the turn; the  *)
(* ParallelSearcher, the Integrator and the Evaluator are shared.          *)
(***************************************************************************)
Turns == {1, 2}

\* documents an adapter returns for the question of turn q
QDoc(kind, rank, q) == [by |-> kind, rank |-> rank, question |-> q]
QAdapterResults(kind, q) ==
    { [i \in 1..n |-> QDoc(kind, i, q)] : n \in 0..MaxDocs }

\* a dispatcher that keeps one results dictionary for all its calls
results_of_call_shared(t) == 1

\* results = {} is a local of _execute_parallel_search: one per call
results_of_call(t) == t

ConcurrentInit ==
    /\ retrievers \in Wirings
    /\ \E cfg \in [Sources -> BOOLEAN] :
          sources_enabled = initial_sources_enabled(retrievers, cfg)
    /\ source_weights = WeightKeys
    /\ pc = [t \in Turns |-> "parallel_search"]
    /\ turn = 2
    /\ rewrite_count = [t \in Turns |-> 0]
    /\ hallucination_decision = [t \in Turns |-> "none"]
    /\ source_categorized_docs = [t \in Turns |-> <<>>]
    /\ integrated_answer = [t \in Turns |-> NoAnswer]
    /\ hallucination_attempts = [t \in Turns |-> 0]
    /\ formatted_answer = [t \in Turns |-> NoAnswer]
    /\ search_tasks = [t \in Turns |-> {}]
    /\ futures = [t \in Turns |-> << >>]
    /\ results = [t \in Turns |-> <<>>]
    /\ timed_out = [t \in Turns |-> {}]
    /\ dispatch_calls = [t \in Turns |-> 0]
    /\ integrate_calls = [t \in Turns |-> 0]
    /\ gen_calls = 0
    /\ last_integrate = NoIntegrate
    /\ check_calls = 0
    /\ cls_calls = 0
    /\ ng_verdicts = 0
    /\ last_check = NoCheck
    /\ failures = {}
    /\ error = [t \in Turns |-> "none"]
    /\ config_error = "none"
    /\ node_executions = 0
    /\ user_id = "none"
    /\ conversation_history = [u \in Users |-> <<>>]
    /\ summary_cache = NoSummary
    /\ last_manage = NoManage

\* what no step of a turn in flight changes
shared_vars == << config_vars, turn, gen_calls, last_integrate, check_vars,
                 failures, config_error, node_executions, memory_vars >>

RunningOf(t) == { s \in search_tasks[t] : futures[t][s].status = "running" }

\* node parallel_search of turn t up to the submission of its tasks
turn_search_all_parallel(t) ==
    /\ pc[t] = "parallel_search"
    /\ dispatch_calls' = [dispatch_calls EXCEPT ![t] = @ + 1]
    /\ LET tasks == prepare_search_tasks(retrievers, sources_enabled) IN
         /\ search_tasks' = [search_tasks EXCEPT ![t] = tasks]
         /\ futures' = [futures EXCEPT ![t] =
                           [s \in tasks |-> [status |-> "running", result |-> <<>>]]]
         /\ results' = [results EXCEPT ![results_of_call(t)] = <<>>]
         /\ IF tasks = {}
            THEN /\ source_categorized_docs' =
                       [source_categorized_docs EXCEPT ![t] = <<>>]
                 /\ pc' = [pc EXCEPT ![t] = "integrate_answers"]
            ELSE /\ UNCHANGED source_categorized_docs
                 /\ pc' = [pc EXCEPT ![t] = "as_completed"]
    /\ UNCHANGED << shared_vars, rewrite_count, hallucination_decision,
                    integrated_answer, hallucination_attempts, formatted_answer,
                    timed_out, integrate_calls, error >>

\* a worker thread of turn t: the adapter returns documents for the question
\* it was submitted with (task_info["args"] = [question])
turn_adapter_returns(t, s) ==
    /\ pc[t] \in {"as_completed", "shutdown"}
    /\ s \in RunningOf(t)
    /\ \E r \in QAdapterResults(retrievers[s], t) :
          futures' = [futures EXCEPT ![t][s] = [status |-> "returned", result |-> r]]
    /\ UNCHANGED << shared_vars, pc, state_vars, search_tasks, results, timed_out,
                    dispatch_calls, integrate_calls, error >>

turn_adapter_raises(t, s) ==
    /\ pc[t] \in {"as_completed", "shutdown"}
    /\ s \in RunningOf(t)
    /\ futures' = [futures EXCEPT ![t][s] = [status |-> "raised", result |-> <<>>]]
    /\ UNCHANGED << shared_vars, pc, state_vars, search_tasks, results, timed_out,
                    dispatch_calls, integrate_calls, error >>

\* one iteration of the as_completed loop of turn t
turn_as_completed_next(t, s) ==
    /\ pc[t] = "as_completed"
    /\ s \in search_tasks[t] \ RunningOf(t)
    /\ s \notin Keys(results[results_of_call(t)])
    /\ results' = [results EXCEPT ![results_of_call(t)] =
                      Put(@, s, collected_value(futures[t][s]))]
    /\ UNCHANGED << shared_vars, pc, state_vars, search_tasks, futures, timed_out,
                    dispatch_calls, integrate_calls, error >>

turn_as_completed_timeout(t) ==
    /\ pc[t] = "as_completed"
    /\ RunningOf(t) # {}
    /\ timed_out' = [timed_out EXCEPT ![t] = RunningOf(t)]
    /\ pc' = [pc EXCEPT ![t] = "shutdown"]
    /\ UNCHANGED << shared_vars, state_vars, search_tasks, futures, results,
                    dispatch_calls, integrate_calls, error >>

turn_shutdown_raises(t) ==
    /\ pc[t] = "shutdown"
    /\ RunningOf(t) = {}
    /\ pc' = [pc EXCEPT ![t] = "raised"]
    /\ error' = [error EXCEPT ![t] = "TimeoutError"]
    /\ UNCHANGED << shared_vars, state_vars, pool_vars, dispatch_calls,
                    integrate_calls >>

\* the dispatch of turn t returns its results dictionary to the node
turn_parallel_search_returns(t) ==
    /\ pc[t] = "as_completed"
    /\ RunningOf(t) = {}
    /\ Keys(results[results_of_call(t)]) = search_tasks[t]
    /\ results' = [results EXCEPT ![results_of_call(t)] =
                      fill_defaults(@, search_tasks[t], 1)]
    /\ source_categorized_docs' =
          [source_categorized_docs EXCEPT ![t] = results'[results_of_call(t)]]
    /\ pc' = [pc EXCEPT ![t] = "integrate_answers"]
    /\ UNCHANGED << shared_vars, rewrite_count, hallucination_decision,
                    integrated_answer, hallucination_attempts, formatted_answer,
                    search_tasks, futures, timed_out, dispatch_calls,
                    integrate_calls, error >>

\* node integrate_answers of turn t
turn_integrate_answers_node(t, gen) ==
    /\ pc[t] = "integrate_answers"
    /\ LET n == integrate_calls[t] + 1
           r == integrate_answers(source_categorized_docs[t], source_weights, gen, n) IN
         /\ (~r.invoked) => gen = "ok"
         /\ integrate_calls' = [integrate_calls EXCEPT ![t] = n]
         /\ IF r.raised = "none"
            THEN /\ integrated_answer' = [integrated_answer EXCEPT ![t] = r.ret]
                 /\ pc' = [pc EXCEPT ![t] = "hallucination_check"]
                 /\ UNCHANGED error
            ELSE /\ UNCHANGED integrated_answer
                 /\ pc' = [pc EXCEPT ![t] = "raised"]
                 /\ error' = [error EXCEPT ![t] = r.raised]
    /\ UNCHANGED << shared_vars, rewrite_count, hallucination_decision,
                    source_categorized_docs, hallucination_attempts,
                    formatted_answer, pool_vars, dispatch_calls >>

\* node hallucination_check of turn t and its conditional edge
turn_hallucination_check(t, cls) ==
    /\ pc[t] = "hallucination_check"
    /\ IF retries_exhausted(rewrite_count[t])
       THEN /\ cls = "yes"
            /\ hallucination_decision' =
                  [hallucination_decision EXCEPT ![t] = "relevant"]
            /\ pc' = [pc EXCEPT ![t] = hallucination_edge("relevant")]
            /\ UNCHANGED rewrite_count
       ELSE LET r == check_hallucination(Flatten(source_categorized_docs[t]), cls) IN
            /\ (~r.invoked) => cls = "yes"
            /\ hallucination_decision' = [hallucination_decision EXCEPT ![t] = r.ret]
            /\ pc' = [pc EXCEPT ![t] = hallucination_edge(r.ret)]
            /\ IF r.ret = "hallucination"
               THEN rewrite_count' =
                       [rewrite_count EXCEPT ![t] = next_rewrite_count(@)]
               ELSE UNCHANGED rewrite_count
    /\ UNCHANGED << shared_vars, source_categorized_docs, integrated_answer,
                    hallucination_attempts, formatted_answer, pool_vars,
                    dispatch_calls, integrate_calls, error >>

\* node format_output of turn t
turn_format_output(t) ==
    /\ pc[t] = "format_output"
    /\ hallucination_attempts' =
          [hallucination_attempts EXCEPT ![t] = rewrite_count[t] + 1]
    /\ formatted_answer' = [formatted_answer EXCEPT ![t] = integrated_answer[t]]
    /\ pc' = [pc EXCEPT ![t] = "END"]
    /\ UNCHANGED << shared_vars, rewrite_count, hallucination_decision,
                    source_categorized_docs, integrated_answer, pool_vars,
                    dispatch_calls, integrate_calls, error >>

ConcurrentNext ==
    \E t \in Turns :
        \/ turn_search_all_parallel(t)
        \/ \E s \in Sources : turn_adapter_returns(t, s)
        \/ \E s \in Sources : turn_adapter_raises(t, s)
        \/ \E s \in Sources : turn_as_completed_next(t, s)
        \/ turn_as_completed_timeout(t)
        \/ turn_shutdown_raises(t)
        \/ turn_parallel_search_returns(t)
        \/ \E gen \in {"ok", "raise"} : turn_integrate_answers_node(t, gen)
        \/ \E cls \in Scores \cup {"raise"} : turn_hallucination_check(t, cls)
        \/ turn_format_output(t)

ConcurrentSpec == ConcurrentInit /\ [][ConcurrentNext]_vars

(***************************************************************************)
(* The conversation history of the turns of several users on one RAGSystem: *)
(* the nodes as far as they read and return conversation_history, the       *)
(* append_messages reducer of that field and the MemoryManager.  The        *)
(* retrieval is left out and a grounding verdict is either value.           *)
(***************************************************************************)
\* self.max_history = 20; conversation_history[-10:] is kept beside the summary
MAX_HISTORY == 20
RECENT == 10

\* one entry of conversation_history; a turn's entries carry the number of its
\* run_graph call, an assistant entry the number of the integration it is from
HistoryEntry(role, u, n, k, content) ==
    [role |-> role, user |-> u, turn |-> n, attempt |-> k, content |-> content]

\* append_messages(current_val, new_val): current_val.copy() extended by new_val
append_messages(current_val, new_val) == current_val \o new_val

\* _create_conversation_summary: the text is a function of the conversations
\* it is given, abstracted to those conversations
create_conversation_summary(conversations) == conversations

\* MemoryManager.manage_conversation_memory: the returned history and the
\* summary_cache after the call
manage_conversation_memory(history, cache) ==
    IF Len(history) <= MAX_HISTORY
    THEN [ret |-> history, cache |-> cache]
    ELSE LET old == SubSeq(history, 1, Len(history) - RECENT)
             recent == SubSeq(history, Len(history) - RECENT + 1, Len(history))
             c == IF cache.set THEN cache
                  ELSE [set |-> TRUE, summary |-> create_conversation_summary(old)]
             summary_message == HistoryEntry("system", "none", 0, 0, c.summary)
         IN [ret |-> <<summary_message>> \o recent, cache |-> c]

\* fields the history nodes do not follow
history_frame == << config_vars, source_categorized_docs, pool_vars,
                   dispatch_calls, gen_calls, last_integrate, check_vars,
                   failures, error, config_error >>

\* run_graph(question, user_id): the history of the thread's checkpoint is put
\* into the initial state, which the graph writes to the thread's channels,
\* conversation_history through its reducer
history_run_graph(u) ==
    /\ BetweenTurns
    /\ turn < MaxCalls
    /\ turn' = turn + 1
    /\ user_id' = u
    /\ LET existing_history == conversation_history[u] IN
          conversation_history' =
              [conversation_history EXCEPT
                  ![u] = append_messages(@, existing_history)]
    /\ pc' = "process_question"
    /\ rewrite_count' = initial_rewrite_count(rewrite_count)
    /\ hallucination_decision' = "none"
    /\ integrated_answer' = NoAnswer
    /\ hallucination_attempts' = 0
    /\ formatted_answer' = NoAnswer
    /\ integrate_calls' = 0
    /\ node_executions' = 0
    /\ UNCHANGED << history_frame, summary_cache, last_manage >>

\* node process_question: the managed history with the user's question
\* appended is returned as conversation_history
history_process_question ==
    /\ pc = "process_question"
    /\ node_executions' = node_executions + 1
    /\ LET current_history == conversation_history[user_id]
           m == manage_conversation_memory(current_history, summary_cache)
           managed_history ==
               Append(m.ret, HistoryEntry("user", user_id, turn, 0, <<>>))
       IN /\ summary_cache' = m.cache
          /\ last_manage' = [history |-> current_history, ret |-> m.ret]
          /\ conversation_history' =
                [conversation_history EXCEPT
                    ![user_id] = append_messages(@, managed_history)]
    /\ pc' = "route_question"
    /\ UNCHANGED << history_frame, turn, user_id, rewrite_count,
                    hallucination_decision, integrated_answer,
                    hallucination_attempts, formatted_answer, integrate_calls >>

\* nodes route_question, retrieve and parallel_search return no
\* conversation_history
history_search_node ==
    /\ pc \in {"route_question", "retrieve", "parallel_search"}
    /\ node_executions' = node_executions + 1
    /\ pc' = CASE pc = "route_question"  -> "retrieve"
              [] pc = "retrieve"        -> "parallel_search"
              [] pc = "parallel_search" -> "integrate_answers"
    /\ UNCHANGED << history_frame, memory_vars, turn, rewrite_count,
                    hallucination_decision, integrated_answer,
                    hallucination_attempts, formatted_answer, integrate_calls >>

\* node integrate_answers: a copy of the history with the assistant's answer
\* appended is returned as conversation_history
history_integrate_answers_node ==
    /\ pc = "integrate_answers"
    /\ node_executions' = node_executions + 1
    /\ LET n == integrate_calls + 1
           history == Append(conversation_history[user_id],
                             HistoryEntry("assistant", user_id, turn, n, <<>>))
       IN /\ integrate_calls' = n
          /\ integrated_answer' = GeneratedAnswer(n)
          /\ conversation_history' =
                [conversation_history EXCEPT
                    ![user_id] = append_messages(@, history)]
    /\ pc' = "hallucination_check"
    /\ UNCHANGED << history_frame, turn, user_id, summary_cache, last_manage,
                    rewrite_count, hallucination_decision,
                    hallucination_attempts, formatted_answer >>

\* node hallucination_check; decision is what check_hallucination returns
history_hallucination_check(decision) ==
    /\ pc = "hallucination_check"
    /\ node_executions' = node_executions + 1
    /\ IF retries_exhausted(rewrite_count)
       THEN /\ decision = "relevant"
            /\ UNCHANGED rewrite_count
       ELSE IF decision = "hallucination"
            THEN rewrite_count' = next_rewrite_count(rewrite_count)
            ELSE UNCHANGED rewrite_count
    /\ hallucination_decision' = decision
    /\ pc' = hallucination_edge(decision)
    /\ UNCHANGED << history_frame, memory_vars, turn, integrated_answer,
                    hallucination_attempts, formatted_answer, integrate_calls >>

\* node format_output returns no conversation_history
history_format_output ==
    /\ pc = "format_output"
    /\ node_executions' = node_executions + 1
    /\ hallucination_attempts' = rewrite_count + 1
    /\ formatted_answer' = integrated_answer
    /\ pc' = "END"
    /\ UNCHANGED << history_frame, memory_vars, turn, rewrite_count,
                    hallucination_decision, integrated_answer, integrate_calls >>

HistoryNext ==
    \/ \E u \in Users : history_run_graph(u)
    \/ history_process_question
    \/ history_search_node
    \/ history_integrate_answers_node
    \/ \E decision \in {"relevant", "hallucination"} :
          history_hallucination_check(decision)
    \/ history_format_output

\* a RAGSystem just constructed: no thread has a checkpoint, no summary is cached
HistoryInit ==
    /\ retrievers = retrievers_of("Retriever", "None", "None", "None", "None", "None")
    /\ sources_enabled = [s \in Sources |-> FALSE]
    /\ source_weights = WeightKeys
    /\ pc = "idle"
    /\ turn = 0
    /\ rewrite_count = 0
    /\ hallucination_decision = "none"
    /\ source_categorized_docs = <<>>
    /\ integrated_answer = NoAnswer
    /\ hallucination_attempts = 0
    /\ formatted_answer = NoAnswer
    /\ search_tasks = {}
    /\ futures = << >>
    /\ results = <<>>
    /\ timed_out = {}
    /\ dispatch_calls = 0
    /\ integrate_calls = 0
    /\ gen_calls = 0
    /\ last_integrate = NoIntegrate
    /\ check_calls = 0
    /\ cls_calls = 0
    /\ ng_verdicts = 0
    /\ last_check = NoCheck
    /\ failures = {}
    /\ error = "none"
    /\ config_error = "none"
    /\ node_executions = 0
    /\ user_id = "none"
    /\ conversation_history = [u \in Users |-> <<>>]
    /\ summary_cache = NoSummary
    /\ last_manage = NoManage

HistorySpec == HistoryInit /\ [][HistoryNext]_vars

TypeOK ==
    /\ pc \in {"idle", "process_question", "route_question", "retrieve",
               "parallel_search", "as_completed", "shutdown", "integrate_answers",
               "hallucination_check", "format_output", "END", "raised"}
    /\ turn \in 0..MaxTurns
    /\ rewrite_count \in Nat
    /\ Keys(results) \subseteq search_tasks

(***************************************************************************)
(* Properties                                                              *)
(***************************************************************************)
Min(a, b) == IF a <= b THEN a ELSE b

\* the dispatcher has handed its map to the graph and no node ran since
DispatchJustReturned ==
    /\ pc = "integrate_answers"
    /\ dispatch_calls = 1
    /\ integrate_calls = 0

\* the dispatch of this turn is over, whichever way it ended
DispatchOver ==
    /\ dispatch_calls = 1
    /\ pc \notin {"as_completed"}

\* tasks of this turn's dispatch whose adapter raised
AdapterRaised == { s \in search_tasks : futures[s].status = "raised" }

\* sources with a constructed adapter and sources_enabled true
EnabledSources == { s \in Sources : retrievers[s] # "None" /\ sources_enabled[s] }

\* every value of the map is [], the keys being present
AllListsEmpty(d) == d # <<>> /\ \A i \in 1..Len(d) : d[i].val = <<>>

\* C1: in every reachable state of a turn the Integrator has been invoked at
\* most MAX_RETRIES + 1 = 3 times and rewrite_count is at most MAX_RETRIES = 2.
C1_RetryBound ==
    /\ integrate_calls <= MAX_RETRIES + 1
    /\ rewrite_count <= MAX_RETRIES

C1_Witness ==
    /\ pc = "END"
    /\ integrate_calls = MAX_RETRIES + 1
    /\ rewrite_count = MAX_RETRIES

\* C2: when exactly one task did not complete before the as_completed deadline
\* and every other task's adapter returned, the dispatcher returns a map with
\* [] for the hung source and the adapter's list for every other source: it is
\* neither waiting for the hung task nor ended by an exception.
OneHungOthersPrompt ==
    /\ Cardinality(timed_out) = 1
    /\ search_tasks \ timed_out # {}
    /\ \A s \in search_tasks \ timed_out :
          futures[s].status = "returned" /\ s \in Keys(results)

C2_TimeoutIsolation ==
    OneHungOthersPrompt =>
        /\ pc \notin {"shutdown", "raised"}
        /\ error = "none"
        /\ Keys(source_categorized_docs) = search_tasks
        /\ \A s \in search_tasks :
              Val(source_categorized_docs, s) =
                  IF s \in timed_out THEN <<>> ELSE futures[s].result

\* C3: when an adapter raised and every other task of the dispatch finished
\* before the deadline, the dispatcher returns normally: no exception reaches
\* its caller, the raising source's entry is [] and every other source's entry
\* is the list its adapter returned.
C3_ExceptionIsolation ==
    (AdapterRaised # {} /\ timed_out = {} /\ Running = {} /\ DispatchOver) =>
        /\ error = "none"
        /\ pc # "raised"
        /\ Keys(source_categorized_docs) = search_tasks
        /\ \A s \in search_tasks :
              Val(source_categorized_docs, s) =
                  IF s \in AdapterRaised THEN <<>> ELSE futures[s].result

C3_Witness ==
    /\ DispatchJustReturned
    /\ \E s \in AdapterRaised :
          \E t \in search_tasks \ AdapterRaised :
             /\ Val(source_categorized_docs, s) = <<>>
             /\ futures[t].result # <<>>
             /\ Val(source_categorized_docs, t) = futures[t].result

\* C4: once a dispatch made while k sources are enabled is over, it has returned
\* a map whose keys are exactly the k enabled sources, and every source that
\* failed, timed out or found nothing has the entry [].
C4_MapComplete ==
    (dispatch_calls = 1 /\ pc \in {"integrate_answers", "shutdown", "raised"}
       /\ integrate_calls = 0) =>
        /\ pc = "integrate_answers"
        /\ Keys(source_categorized_docs) = EnabledSources
        /\ \A s \in EnabledSources :
              (s \in AdapterRaised \/ s \in timed_out \/ futures[s].result = <<>>)
                  => Val(source_categorized_docs, s) = <<>>

\* C5: an integrate_answers call on a map whose values are all [] returns the
\* fixed no-information response and does not invoke the generation model.
C5_NoSourceShortCircuit ==
    (integrate_calls >= 1 /\ AllListsEmpty(last_integrate.docs)) =>
        /\ last_integrate.ret.kind = "no_info"
        /\ ~last_integrate.invoked

\* C6: a turn in which exactly one component failed (an adapter raised or hung,
\* the generation model raised, or the classification model raised) does not
\* raise to the caller of run_graph.
C6_NeverRaisesOnSingleFailure ==
    Cardinality(failures) = 1 => (pc # "raised" /\ error = "none")

\* C7: once an adapter task has timed out it is abandoned: the dispatcher does
\* not wait for it and the turn goes on to Integrate instead of ending without
\* having reached format_output.
C7_TimedOutTaskAbandoned ==
    timed_out # {} => pc \notin {"shutdown", "raised"}

\* C8: a check_hallucination call on an empty flattened evidence list returns
\* 'relevant' without invoking the classification model; it is the first and
\* only check of the turn and the verdict stands.
C8_VacuousGrounding ==
    (check_calls >= 1 /\ last_check.documents = <<>>) =>
        /\ last_check.ret = "relevant"
        /\ ~last_check.invoked
        /\ check_calls = 1
        /\ cls_calls = 0
        /\ hallucination_decision = "relevant"

C8_Witness ==
    /\ pc = "format_output"
    /\ check_calls = 1
    /\ last_check.documents = <<>>
    /\ integrated_answer.kind = "generated"

\* C9: a check_hallucination call on non-empty evidence invokes the classifier
\* and returns 'relevant' exactly when the (lower-cased) binary score is 'yes',
\* 'hallucination' for any other score and 'hallucination' when the call raises.
C9_FailUnsafeVerdict ==
    (check_calls >= 1 /\ last_check.documents # <<>>) =>
        /\ last_check.invoked
        /\ last_check.ret \in {"relevant", "hallucination"}
        /\ (last_check.ret = "relevant") <=> (last_check.score \in {"yes", "YES"})
        /\ (last_check.score = "raise") => (last_check.ret = "hallucination")

C9_Witness ==
    /\ last_check.documents # <<>>
    /\ last_check.score = "raise"
    /\ last_check.ret = "hallucination"
    /\ pc = "integrate_answers"
    /\ rewrite_count = 1

\* C10: when a turn has finalized, the number of Integrator invocations is
\* 1 + min(number of 'hallucination' verdicts, MAX_RETRIES); with two such
\* verdicts there were exactly 3 invocations, rewrite_count is 2 and the final
\* verdict is 'relevant'.
C10_IntegratorCallCount ==
    pc \in {"format_output", "END"} =>
        /\ integrate_calls = 1 + Min(ng_verdicts, MAX_RETRIES)
        /\ (ng_verdicts = 2) =>
              /\ integrate_calls = 3
              /\ rewrite_count = 2
              /\ hallucination_decision = "relevant"

C10_Witness ==
    /\ pc = "END"
    /\ ng_verdicts = 2
    /\ integrate_calls = 3
    /\ hallucination_decision = "relevant"
    /\ hallucination_attempts = 3

\* C11: a finalized turn whose every grounding check returned 'hallucination'
\* made exactly 3 Integrator calls, the answer handed to the output formatter
\* is the output of the third call, and no exception reached the caller.
C11_ForcedAcceptance ==
    (pc = "END" /\ check_calls >= 1 /\ ng_verdicts = check_calls) =>
        /\ integrate_calls = MAX_RETRIES + 1
        /\ last_integrate.ret.attempt = MAX_RETRIES + 1
        /\ formatted_answer = last_integrate.ret
        /\ error = "none"

C11_Witness ==
    /\ pc = "END"
    /\ check_calls = 2
    /\ ng_verdicts = check_calls
    /\ formatted_answer.attempt = 3
    /\ formatted_answer.kind = "generated"

\* C12: the dispatcher is invoked at most once in a turn and exactly once in a
\* turn that got past it; once the Integrator has run, the turn is never again
\* at or before the dispatch.
C12_SingleDispatch ==
    /\ dispatch_calls <= 1
    /\ pc \in {"as_completed", "shutdown", "integrate_answers",
               "hallucination_check", "format_output", "END"} => dispatch_calls = 1
    /\ integrate_calls >= 1 =>
          pc \in {"integrate_answers", "hallucination_check", "format_output",
                  "END", "raised"}

C12_Witness ==
    /\ pc = "END"
    /\ integrate_calls = 3
    /\ dispatch_calls = 1
    /\ source_categorized_docs # <<>>

\* sources of a map whose list is not empty
NonEmptySources(d) == { k \in Keys(d) : Val(d, k) # <<>> }

\* C13: an integrate_answers call whose generation raised, on a map with at
\* least one non-empty list, returns the templated fallback built from one of
\* the non-empty sources of the map.
C13_FallbackFromBestSource ==
    (integrate_calls >= 1 /\ last_integrate.gen = "raise"
       /\ NonEmptySources(last_integrate.docs) # {}) =>
        /\ last_integrate.ret.kind = "fallback"
        /\ last_integrate.ret.source \in NonEmptySources(last_integrate.docs)

\* C14: an integrate_answers call whose generation raised does not raise to
\* its caller, whatever the source map and the weight table, and the fallback
\* adds no invocation of the generation model to the one that raised.
C14_FallbackNeverRaises ==
    (integrate_calls >= 1 /\ last_integrate.gen = "raise") =>
        /\ pc # "raised"
        /\ error = "none"
        /\ gen_calls = integrate_calls

\* C15: every turn, the first and every later one, runs up to its first
\* grounding check with rewrite_count = 0, so a finalized turn has submitted
\* its first integrated answer to the verifier and each turn has its own
\* budget of MAX_RETRIES retries.
C15_FreshTurnState ==
    /\ pc \in {"process_question", "route_question", "retrieve", "parallel_search",
               "as_completed", "shutdown"} => rewrite_count = 0
    /\ integrate_calls <= 1 /\ check_calls = 0 /\ ~BetweenTurns => rewrite_count = 0
    /\ pc \in {"format_output", "END"} => check_calls >= 1
    /\ rewrite_count = ng_verdicts

C15_Witness ==
    /\ turn = 2
    /\ pc = "END"
    /\ rewrite_count = MAX_RETRIES
    /\ check_calls = 2
    /\ integrate_calls = 3

\* the map of this turn's dispatch with its sources in submission order, which
\* no completion order influences
SubmissionOrderMap ==
    LET ks == fill_defaults(<<>>, search_tasks, 1) IN
    [i \in 1..Len(ks) |->
        [key |-> ks[i].key, val |-> collected_value(futures[ks[i].key])]]

\* C16: the weighted context the Integrator builds from the dispatcher's map is
\* a function of the adapters' results alone: it is the context of the map
\* taken in submission order, whatever the order the tasks completed in.
C16_CompletionOrderHidden ==
    (integrate_calls >= 1 /\ last_integrate.invoked) =>
        last_integrate.weighted_content =
            build_weighted_content(SubmissionOrderMap, source_weights)

\* the fields of turn t the claim is about changed in this step
TurnChanged(t) ==
    \/ source_categorized_docs'[t] # source_categorized_docs[t]
    \/ rewrite_count'[t] # rewrite_count[t]
    \/ integrated_answer'[t] # integrated_answer[t]

\* the step belongs to the thread of turn t
StepOf(t) ==
    \/ pc'[t] # pc[t]
    \/ futures'[t] # futures[t]
    \/ results'[results_of_call(t)] # results[results_of_call(t)]

\* every document of the map is one an adapter returned for question q
OwnResults(d, q) ==
    \A i \in 1..Len(d) : \A j \in 1..Len(d[i].val) : d[i].val[j].question = q

C18_NoRetryOnEmptyEvidence ==
    (dispatch_calls = 1 /\ Flatten(source_categorized_docs) = <<>>
       /\ pc \in {"integrate_answers", "hallucination_check", "format_output", "END"}) =>
        /\ integrate_calls <= 1
        /\ rewrite_count = 0
        /\ cls_calls = 0
        /\ pc \in {"format_output", "END"} =>
              (integrate_calls = 1 /\ hallucination_decision = "relevant")

C18_Witness ==
    /\ pc = "END"
    /\ AllListsEmpty(source_categorized_docs)
    /\ AdapterRaised # {}
    /\ integrate_calls = 1
    /\ rewrite_count = 0

\* C19: a dispatch made while no source is enabled returns the empty map at
\* once: no task is submitted, no future exists, no adapter is invoked and the
\* turn is never inside the worker pool.
C19_NoSourceNoDispatch ==
    (dispatch_calls = 1 /\ EnabledSources = {}
       /\ pc \in {"as_completed", "shutdown", "integrate_answers",
                  "hallucination_check", "format_output"}) =>
        /\ search_tasks = {}
        /\ futures = << >>
        /\ results = <<>>
        /\ source_categorized_docs = <<>>
        /\ ~InPool
        /\ failures \cap Sources = {}

C19_Witness ==
    /\ DispatchJustReturned
    /\ EnabledSources = {}
    /\ source_categorized_docs = <<>>
    /\ retrievers["local"] = "Retriever"

\* C20: a step from hallucination_check back to integrate_answers is taken
\* only on a 'hallucination' verdict reached with rewrite_count < MAX_RETRIES,
\* and it adds exactly 1 to rewrite_count; no other step of a running turn
\* (dispatch, integration, 'relevant' verdict, forced acceptance, formatting)
\* changes rewrite_count.
C20_RewriteCountFrame ==
    [][ /\ (pc = "hallucination_check" /\ pc' = "integrate_answers") =>
              /\ hallucination_decision' = "hallucination"
              /\ rewrite_count < MAX_RETRIES
              /\ rewrite_count' = rewrite_count + 1
        /\ (~BetweenTurns /\ rewrite_count' # rewrite_count) =>
              /\ pc = "hallucination_check"
              /\ pc' = "integrate_answers"
              /\ rewrite_count' = rewrite_count + 1 ]_vars

C20_Witness ==
    /\ pc = "integrate_answers"
    /\ integrate_calls = 2
    /\ rewrite_count = 2
    /\ hallucination_decision = "hallucination"

\* the verdict in hallucination_decision has just been produced and is the
\* one the conditional edge of hallucination_check branched on
VerdictJustProduced ==
    \/ pc = "format_output"
    \/ pc = "integrate_answers" /\ integrate_calls >= 1

\* C21: the verdict the graph branches on is the value the last
\* check_hallucination call of the turn returned, and that call was made on
\* the integrated answer the turn currently holds.
C21_VerdictFromVerifier ==
    VerdictJustProduced =>
        /\ check_calls >= 1
        /\ last_check.ret = hallucination_decision
        /\ last_check.answer = integrated_answer

\* the turn is at or after its first integration and before its end
AfterDispatch == pc \in {"integrate_answers", "hallucination_check", "format_output"}

\* C22: every step a turn takes from integrate_answers, hallucination_check or
\* format_output leaves source_categorized_docs as the dispatch wrote it, runs
\* no further dispatch, and a re-integration reads that same map.
C22_SourceMapFrame ==
    [][ (dispatch_calls = 1 /\ AfterDispatch) =>
            /\ source_categorized_docs' = source_categorized_docs
            /\ dispatch_calls' = dispatch_calls
            /\ pc' \in {"integrate_answers", "hallucination_check", "format_output",
                        "END", "raised"}
            /\ integrate_calls' # integrate_calls =>
                  last_integrate'.docs = source_categorized_docs ]_vars

C22_Witness ==
    /\ pc = "hallucination_check"
    /\ integrate_calls = 3
    /\ rewrite_count = 2
    /\ dispatch_calls = 1
    /\ last_integrate.docs = source_categorized_docs
    /\ NonEmptySources(source_categorized_docs) # {}

\* C23: the weighted context of an integrate_answers call has exactly one
\* section for each source whose list in the map is not empty, holding one
\* item per document of that list with at most 300 characters of its content,
\* and no section for a source whose list is empty or that is not in the map.
C23_SectionsForNonEmptySources ==
    (integrate_calls >= 1 /\ last_integrate.invoked) =>
        LET wc == last_integrate.weighted_content
            d == last_integrate.docs IN
        /\ { wc[i].source : i \in 1..Len(wc) } = NonEmptySources(d)
        /\ Len(wc) = Cardinality(NonEmptySources(d))
        /\ \A i \in 1..Len(wc) :
              /\ Len(wc[i].items) = Len(Val(d, wc[i].source))
              /\ \A j \in 1..Len(wc[i].items) :
                    /\ wc[i].items[j].by = Val(d, wc[i].source)[j].by
                    /\ wc[i].items[j].rank = Val(d, wc[i].source)[j].rank
                    /\ wc[i].items[j].chars =
                          Min(page_chars(Val(d, wc[i].source)[j]), ContentBudget)

C23_Witness ==
    /\ last_integrate.invoked
    /\ Len(last_integrate.docs) = 3
    /\ Len(last_integrate.weighted_content) = 1
    /\ last_integrate.weighted_content[1].source = "pubmed"
    /\ last_integrate.weighted_content[1].items[1].chars = ContentBudget

\* the adapter class that is the backend of a source (the parameter of
\* ParallelSearcher.__init__ each key of self.retrievers is meant for)
backend_adapter(s) ==
    CASE s = "local"      -> "Retriever"
      [] s = "s3"         -> "S3Retriever"
      [] s = "medgemma"   -> "MedGemmaSearcher"
      [] s = "pubmed"     -> "PubMedSearcher"
      [] s = "tavily"     -> "TavilySearcher"
      [] s = "bedrock_kb" -> "BedrockRetriever"

\* C24: every document stored under a key of the map the dispatcher returned
\* was returned by the backend adapter of that source.
C24_SourceLabelIntegrity ==
    \A i \in 1..Len(source_categorized_docs) :
        \A j \in 1..Len(source_categorized_docs[i].val) :
            source_categorized_docs[i].val[j].by =
                backend_adapter(source_categorized_docs[i].key)

\* C25: the answer format_output released was the subject of a
\* check_hallucination call of the turn: at least one call was made and, the
\* released answer being the last integrated one, the last call was on it.
C25_EveryReleasedAnswerChecked ==
    pc = "END" =>
        /\ check_calls >= 1
        /\ last_check.answer = formatted_answer

\* the entries of a history with the given role that the given call added
EntriesOf(h, role, n) == { i \in 1..Len(h) : h[i].role = role /\ h[i].turn = n }

\* C26: when a turn has completed, the history of its thread holds exactly one
\* user entry and exactly one assistant entry of this turn, the assistant
\* entry is the one of the last integration, and no entry occurs twice.
C26_HistoryGainsOnePair ==
    pc = "END" =>
        LET h == conversation_history[user_id] IN
        /\ Cardinality(EntriesOf(h, "user", turn)) = 1
        /\ Cardinality(EntriesOf(h, "assistant", turn)) = 1
        /\ \A i \in EntriesOf(h, "assistant", turn) : h[i].attempt = integrate_calls
        /\ \A i, j \in 1..Len(h) : i # j => h[i] # h[j]

\* C27: the number of verification checks reported with a released answer is
\* the number of check_hallucination calls made in the turn.
C27_ReportedChecksAreActual ==
    pc = "END" => hallucination_attempts = check_calls

\* sources whose sources_enabled flag is true
FlaggedSources == { s \in Sources : sources_enabled[s] }

\* C28: the tasks a dispatch submits, and the keys of the map it returns, are
\* exactly the sources whose sources_enabled flag is true when it is called
\* (the flags do not change while a turn runs).
C28_AttemptedIffEnabled ==
    /\ (dispatch_calls = 1 /\ pc = "as_completed") => search_tasks = FlaggedSources
    /\ DispatchJustReturned =>
          /\ search_tasks = FlaggedSources
          /\ Keys(source_categorized_docs) = FlaggedSources

\* C29: a turn executes at most 11 graph nodes, which is below
\* RECURSION_LIMIT, and a finalized turn has executed the four nodes up to the
\* dispatch, its integrations, as many hallucination_check nodes, and
\* format_output.
C29_NodeExecutionsBounded ==
    /\ node_executions <= 4 + 2 * (MAX_RETRIES + 1) + 1
    /\ 4 + 2 * (MAX_RETRIES + 1) + 1 = 11
    /\ node_executions < RECURSION_LIMIT
    /\ pc = "END" => node_executions = 4 + 2 * integrate_calls + 1

C29_Witness ==
    /\ pc = "END"
    /\ node_executions = 11
    /\ integrate_calls = 3

\* C30: when manage_conversation_memory is called with a history of more than
\* MAX_HISTORY entries, the summary message it puts first is the summary of
\* that history's entries before the last RECENT.
C30_SummaryOfOwnHistory ==
    Len(last_manage.history) > MAX_HISTORY =>
        /\ last_manage.ret[1].role = "system"
        /\ last_manage.ret[1].content =
              create_conversation_summary(
                  SubSeq(last_manage.history, 1, Len(last_manage.history) - RECENT))
====
